---------------------------- MODULE Spec2Model ----------------------------
(***************************************************************************)
(* A model of markusjx::csv: the escape-sequence generator (field          *)
(* escaping and quote-aware splitting), the cell / row / document value    *)
(* types and the disk-backed basic_csv_file with its write-back cache and  *)
(* deferred deletion.                                                      *)
(*                                                                         *)
(* Text is a sequence of one-character strings.  C++ positions are         *)
(* zero-based; position p of a text s is s[p + 1] here.                    *)
(***************************************************************************)
EXTENDS Integers, Sequences, FiniteSets, TLC

VARIABLES
    str,          \* codec: the text handed to the escape-sequence generator
    delim,        \* codec: the delimiter handed to find / splitString
    res,          \* codec: what the last codec call returned
    file,         \* basic_csv_file: content of the file at `path`, or NoFile
    cache,        \* basic_csv_file::cache   (line index -> row)
    toDelete,     \* basic_csv_file::toDelete
    currentLine,  \* basic_csv_file::currentLine
    maxCached,    \* basic_csv_file::maxCached
    csv,          \* the basic_csv the same calls are made on (its rows)
    ret,          \* what the last call on the file / document returned
    tmp,          \* writeCacheToFile: content of the file at getTmpFile()
    pc            \* writeCacheToFile: the statement a running call is at

vars ==
    <<str, delim, res, file, cache, toDelete, currentLine, maxCached, csv, ret, tmp, pc>>

codecVars == <<str, delim, res>>
flushVars == <<tmp, pc>>
tableVars == <<file, cache, toDelete, currentLine, maxCached, csv, ret, flushVars>>
fileVars == <<file, cache, toDelete, currentLine, maxCached, ret, flushVars>>

----------------------------------------------------------------------------
(* Characters *)

QUOTE == "\""
Sep   == ";"
NL    == "\n"

\* The characters texts are drawn from: one ordinary character and the
\* three the format treats specially.
Char == {"a", QUOTE, Sep, NL}

\* Longest text given to the codec.
MaxLen == 5

\* T::npos, as a value no position can have.
NPOS == -1

RECURSIVE TextsUpTo(_)
TextsUpTo(n) ==
    IF n = 0 THEN {<<>>}
    ELSE LET shorter == TextsUpTo(n - 1)
         IN  shorter \cup {Append(s, c) : s \in {t \in shorter : Len(t) = n - 1}, c \in Char}

Max(a, b) == IF a >= b THEN a ELSE b
Min(a, b) == IF a <= b THEN a ELSE b

Contains(s, c) == \E k \in 1..Len(s) : s[k] = c

----------------------------------------------------------------------------
(* escape_sequence_generator *)

\* escape_character that forgets to double the double quote
escape_character_undoubled(character) == <<character>>

escape_character(character) ==
    IF character = QUOTE THEN <<QUOTE, QUOTE>> ELSE <<character>>

RECURSIVE escape_each(_)
escape_each(s) ==
    IF s = <<>> THEN <<>>
    ELSE escape_character(Head(s)) \o escape_each(Tail(s))

\* escape_string that does not look for the separator
escape_string_no_sep(s) ==
    IF Contains(s, NL) \/ Contains(s, QUOTE)
    THEN <<QUOTE>> \o escape_each(s) \o <<QUOTE>>
    ELSE s

escape_string(s) ==
    IF Contains(s, NL) \/ Contains(s, QUOTE) \/ Contains(s, Sep)
    THEN <<QUOTE>> \o escape_each(s) \o <<QUOTE>>
    ELSE s

\* unescape_character: [converted, character]
unescape_character(character) ==
    IF character = QUOTE THEN [converted |-> TRUE, character |-> QUOTE]
    ELSE [converted |-> FALSE, character |-> character]

strip_quotes(s) ==
    IF Len(s) >= 2 /\ s[1] = QUOTE /\ s[Len(s)] = QUOTE
    THEN SubSeq(s, 2, Len(s) - 1)
    ELSE s

\* the scan of unescape_string: i is the zero-based loop index
RECURSIVE unescape_scan(_, _)
unescape_scan(s, i) ==
    IF i >= Len(s) THEN <<>>
    ELSE IF s[i + 1] = QUOTE /\ i + 1 < Len(s) /\ unescape_character(s[i + 2]).converted
         THEN <<unescape_character(s[i + 2]).character>> \o unescape_scan(s, i + 2)
         ELSE <<s[i + 1]>> \o unescape_scan(s, i + 1)

unescape_string(toConvert, only_quotes_tm) ==
    IF only_quotes_tm THEN strip_quotes(toConvert)
    ELSE unescape_scan(strip_quotes(toConvert), 0)

\* find that never reports the missing quotation mark
RECURSIVE find_from_unchecked(_, _, _, _)
find_from_unchecked(s, pos, delimiter, doubleQuotes) ==
    IF pos >= Len(s)
    THEN [err |-> FALSE, pos |-> NPOS]
    ELSE IF s[pos + 1] = QUOTE
         THEN find_from_unchecked(s, pos + 1, delimiter, (doubleQuotes + 1) % 2)
         ELSE IF s[pos + 1] = delimiter /\ doubleQuotes = 0
              THEN [err |-> FALSE, pos |-> pos]
              ELSE find_from_unchecked(s, pos + 1, delimiter, doubleQuotes)

\* find that stops at a delimiter inside a quoted span too
RECURSIVE find_from_ignoring_quotes(_, _, _, _)
find_from_ignoring_quotes(s, pos, delimiter, doubleQuotes) ==
    IF pos >= Len(s)
    THEN [err |-> doubleQuotes # 0, pos |-> NPOS]
    ELSE IF s[pos + 1] = QUOTE
         THEN find_from_ignoring_quotes(s, pos + 1, delimiter, (doubleQuotes + 1) % 2)
         ELSE IF s[pos + 1] = delimiter
              THEN [err |-> FALSE, pos |-> pos]
              ELSE find_from_ignoring_quotes(s, pos + 1, delimiter, doubleQuotes)

\* find: [err, pos]; err is the parse_error, pos = NPOS when not found
RECURSIVE find_from(_, _, _, _)
find_from(s, pos, delimiter, doubleQuotes) ==
    IF pos >= Len(s)
    THEN [err |-> doubleQuotes # 0, pos |-> NPOS]
    ELSE IF s[pos + 1] = QUOTE
         THEN find_from(s, pos + 1, delimiter, (doubleQuotes + 1) % 2)
         ELSE IF s[pos + 1] = delimiter /\ doubleQuotes = 0
              THEN [err |-> FALSE, pos |-> pos]
              ELSE find_from(s, pos + 1, delimiter, doubleQuotes)

find(s, offset, delimiter) == find_from(s, offset, delimiter, 0)

\* the do-while loop of splitString: [err, tokens]
RECURSIVE split_loop(_, _, _, _)
split_loop(s, delimiter, prev, tokens) ==
    LET f == find(s, prev, delimiter)
        pos == IF f.pos = NPOS THEN Len(s) ELSE f.pos
        token == SubSeq(s, prev + 1, pos)
    IN  IF f.err THEN [err |-> TRUE, tokens |-> <<>>]
        ELSE IF pos < Len(s) /\ pos + 1 < Len(s)
             THEN split_loop(s, delimiter, pos + 1, Append(tokens, token))
             ELSE [err |-> FALSE, tokens |-> Append(tokens, token)]

\* splitString without the token after a trailing delimiter
splitString_no_trailing(s, delimiter) == split_loop(s, delimiter, 0, <<>>)

splitString(s, delimiter) ==
    LET l == split_loop(s, delimiter, 0, <<>>)
    IN  IF l.err THEN l
        ELSE IF s # <<>> /\ s[Len(s)] = delimiter /\ delimiter # NL
             THEN [err |-> FALSE, tokens |-> Append(l.tokens, <<>>)]
             ELSE l

----------------------------------------------------------------------------
(* csv_cell: a cell is its stored (escaped) text *)

\* csv_cell::parse keeps the text as it is given: col.value = value
cell_parse(value) == value

cell_of(val) == escape_string(val)

cell_nullptr == <<>>

cell_as_string(cell) == unescape_string(cell, FALSE)

cell_empty(cell) == cell_as_string(cell) = <<>>

cell_equals(a, b) == cell_as_string(a) = cell_as_string(b)

----------------------------------------------------------------------------
(* const_csv_row / csv_row: a row is the sequence of its cells *)

row_nullptr == <<>>

\* min_size that counts the trailing empty cells
min_size_all(cells) == Len(cells)

RECURSIVE min_size(_)
min_size(cells) ==
    IF cells # <<>> /\ cell_empty(cells[Len(cells)])
    THEN min_size(SubSeq(cells, 1, Len(cells) - 1))
    ELSE Len(cells)

\* to_string_impl: i is the zero-based loop index, max the field count
RECURSIVE row_render(_, _, _)
row_render(cells, i, max) ==
    IF i >= max THEN <<>>
    ELSE (IF i < Len(cells) THEN cells[i + 1] ELSE <<>>)
         \o (IF i < max - 1 THEN <<Sep>> ELSE <<>>)
         \o row_render(cells, i + 1, max)

row_to_string(cells, len) == row_render(cells, 0, Max(min_size(cells), len))

row_equals(a, b) ==
    /\ min_size(a) = min_size(b)
    /\ \A i \in 1..min_size(a) : cell_equals(a[i], b[i])

\* csv_row::parse: [err, row]
row_parse(value) ==
    IF value = <<>> THEN [err |-> FALSE, row |-> row_nullptr]
    ELSE LET sp == splitString(value, Sep)
         IN  IF sp.err THEN [err |-> TRUE, row |-> row_nullptr]
             ELSE [err |-> FALSE,
                   row |-> [k \in 1..Len(sp.tokens) |-> cell_parse(sp.tokens[k])]]

row_strip(cells) == SubSeq(cells, 1, min_size(cells))

----------------------------------------------------------------------------
(* basic_csv: a document is the sequence of its rows *)

RECURSIVE max_row_length_from(_, _)
max_row_length_from(rows, max) ==
    IF rows = <<>> THEN max
    ELSE max_row_length_from(Tail(rows), Max(max, min_size(Head(rows))))

max_row_length(rows) == max_row_length_from(rows, 0)

\* to_string_impl: i is the zero-based loop index
RECURSIVE csv_render(_, _, _)
csv_render(rows, i, max) ==
    IF i >= Len(rows) THEN <<>>
    ELSE (IF i > 0 THEN <<NL>> ELSE <<>>)
         \o row_to_string(rows[i + 1], max)
         \o csv_render(rows, i + 1, max)

\* to_string_impl that pads no row
csv_to_string_ragged(rows) == csv_render(rows, 0, 0)

csv_to_string(rows) == csv_render(rows, 0, max_row_length(rows))

\* parseImpl on an empty document: [err, rows]
csv_parse(value) ==
    LET sp == splitString(value, NL)
    IN  IF sp.err \/ \E k \in 1..Len(sp.tokens) : row_parse(sp.tokens[k]).err
        THEN [err |-> TRUE, rows |-> <<>>]
        ELSE [err |-> FALSE,
              rows |-> [k \in 1..Len(sp.tokens) |-> row_parse(sp.tokens[k]).row]]

csv_equals(a, b) ==
    /\ Len(a) = Len(b)
    /\ \A i \in 1..Len(a) : row_equals(a[i], b[i])

----------------------------------------------------------------------------
(* basic_csv: the calls that change a document *)

\* operator<<(const U &): get_current().get_next() = val
csv_push(rows, val) ==
    LET cur == IF rows = <<>> THEN <<row_nullptr>> ELSE rows
    IN  [cur EXCEPT ![Len(cur)] = Append(@, cell_of(val))]

csv_endline(rows) == Append(rows, row_nullptr)

\* at(index): the rows after the call (rows are appended up to index)
csv_at(rows, index) ==
    IF index >= Len(rows)
    THEN rows \o [k \in 1..(index + 1 - Len(rows)) |-> row_nullptr]
    ELSE rows

\* csv[index] << val
csv_at_push(rows, index, val) ==
    [csv_at(rows, index) EXCEPT ![index + 1] = Append(@, cell_of(val))]

\* at(index) that appends one cell more than up to index
row_at_one_more(cells, index) ==
    IF index >= Len(cells)
    THEN cells \o [k \in 1..(index + 2 - Len(cells)) |-> cell_nullptr]
    ELSE cells

\* csv_row::at(index): the cells after the call (empty cells are appended
\* up to index)
row_at(cells, index) ==
    IF index >= Len(cells)
    THEN cells \o [k \in 1..(index + 1 - Len(cells)) |-> cell_nullptr]
    ELSE cells

\* strip(), the loop at its end: the empty rows at the end are removed
RECURSIVE pop_empty_rows(_)
pop_empty_rows(rows) ==
    IF rows # <<>> /\ rows[Len(rows)] = row_nullptr
    THEN pop_empty_rows(SubSeq(rows, 1, Len(rows) - 1))
    ELSE rows

\* strip() that keeps the empty rows at the end
csv_strip_rows_only(rows) == [k \in 1..Len(rows) |-> row_strip(rows[k])]

csv_strip(rows) == pop_empty_rows([k \in 1..Len(rows) |-> row_strip(rows[k])])

\* erase(index), for index < size()
csv_erase(rows, index) ==
    SubSeq(rows, 1, index) \o SubSeq(rows, index + 2, Len(rows))

----------------------------------------------------------------------------
(* basic_csv_file.  A table state s is the record of the object's fields   *)
(* and the file at `path`: [file, cache, toDelete, currentLine,            *)
(* maxCached].  The file is kept as whether it exists and its text cut at  *)
(* every newline (a text without newline is one segment, the empty text    *)
(* one empty segment).  A call returns a record with the exception it      *)
(* threw in err ("none" when it returned) and the state it left in s.      *)

\* uint64_t wraps at this modulus.  The width is scaled down to stay inside
\* the model checker's integers; every line index of the model is far
\* below it, so a wrapped value is as out of reach as it is in 64 bits.
UINT64_MOD == 65536

\* the default of the constructor's maxCached parameter
DefaultMaxCached == 100

\* the text cut at every newline
RECURSIVE segments(_, _)
segments(text, current) ==
    IF text = <<>> THEN <<current>>
    ELSE IF Head(text) = NL THEN <<current>> \o segments(Tail(text), <<>>)
    ELSE segments(Tail(text), Append(current, Head(text)))

\* the lines written with std::endl between them
RECURSIVE join_lines(_)
join_lines(lines) ==
    IF lines = <<>> THEN <<>>
    ELSE IF Len(lines) = 1 THEN lines[1]
    ELSE lines[1] \o <<NL>> \o join_lines(Tail(lines))

FileOf(text) == [exists |-> TRUE, segs |-> segments(text, <<>>)]

FileText(f) == join_lines(f.segs)

EmptyFile == FileOf(<<>>)

NoFile == [exists |-> FALSE, segs |-> <<<<>>>>]

None == "none"
IndexOutOfRange == "index_out_of_range_error"
FileOperationError == "file_operation_error"
ParseError == "parse_error"

EmptyCache == [k \in {} |-> row_nullptr]

cache_insert_or_assign(c, line, row) ==
    [k \in (DOMAIN c) \cup {line} |-> IF k = line THEN row ELSE c[k]]

cache_erase(c, line) == [k \in (DOMAIN c) \ {line} |-> c[k]]

\* cache.rbegin()->first
cache_last_key(c) == CHOOSE k \in DOMAIN c : \A j \in DOMAIN c : j <= k

InToDelete(s, i) == \E k \in 1..Len(s.toDelete) : s.toDelete[k] = i

\* push_back without std::sort
push_back_only(list, x) == Append(list, x)

\* std::sort after push_back
RECURSIVE sorted_insert(_, _)
sorted_insert(list, x) ==
    IF list = <<>> THEN <<x>>
    ELSE IF x < Head(list) THEN <<x>> \o list
    ELSE <<Head(list)>> \o sorted_insert(Tail(list), x)

\* the lines a std::getline loop reads: no line for an empty rest of file
get_lines(segs) ==
    IF segs[Len(segs)] = <<>> THEN SubSeq(segs, 1, Len(segs) - 1) ELSE segs

\* gotoLine(in, line) followed by std::getline(in, value)
read_line(segs, line) ==
    IF line < Len(segs) THEN segs[line + 1] ELSE <<>>

\* the number of newlines in the file
getLastFileLineIndex(s) == Len(s.file.segs) - 1

getTranslatedMaxLineIndex(s) ==
    LET fLines == getLastFileLineIndex(s)
    IN  IF DOMAIN s.cache = {}
        THEN Max(fLines, s.currentLine)
        ELSE Max(Max(fLines, cache_last_key(s.cache)), s.currentLine)

getMaxLineIndex(s) ==
    (getTranslatedMaxLineIndex(s) - Len(s.toDelete)) % UINT64_MOD

getCacheSize(s) == Cardinality(DOMAIN s.cache) + Len(s.toDelete)

\* is_file_empty: [err, val]
is_file_empty(s) ==
    IF ~s.file.exists THEN [err |-> FileOperationError, val |-> FALSE]
    ELSE [err |-> None, val |-> s.file.segs = <<<<>>>>]

\* size: [err, val]
size(s) ==
    LET r == (getMaxLineIndex(s) + 1) % UINT64_MOD
    IN  IF r = 1
        THEN LET e == is_file_empty(s)
             IN  IF e.err # None THEN [err |-> e.err, val |-> 0]
                 ELSE [err |-> None, val |-> IF e.val THEN 0 ELSE r]
        ELSE [err |-> None, val |-> r]

\* empty: [err, val]
empty(s) ==
    LET z == size(s)
    IN  IF z.err # None THEN [err |-> z.err, val |-> FALSE]
        ELSE [err |-> None, val |-> z.val <= 0]

\* translateLine: i is the loop index
RECURSIVE translate_from(_, _, _)
translate_from(list, i, line) ==
    IF i < Len(list) /\ list[i + 1] <= line
    THEN translate_from(list, i + 1, line + 1)
    ELSE line

\* translateLine that adds one for every entry up to the line asked for
translate_counting(s, line) ==
    line + Cardinality({k \in 1..Len(s.toDelete) : s.toDelete[k] <= line})

translateLine(s, line) == translate_from(s.toDelete, 0, line)

\* getLineFromFile: [err, row]
getLineFromFile(s, line) ==
    IF line > getTranslatedMaxLineIndex(s)
    THEN [err |-> IndexOutOfRange, row |-> row_nullptr]
    ELSE IF line \in DOMAIN s.cache
         THEN [err |-> None, row |-> s.cache[line]]
         ELSE LET value == read_line(s.file.segs, line)
                  parsed == row_parse(value)
              IN  IF value = <<>> THEN [err |-> None, row |-> row_nullptr]
                  ELSE IF parsed.err THEN [err |-> ParseError, row |-> row_nullptr]
                  ELSE [err |-> None, row |-> parsed.row]

\* at(line) const: [err, row]
at_const(s, line) ==
    IF line > getMaxLineIndex(s)
    THEN [err |-> IndexOutOfRange, row |-> row_nullptr]
    ELSE getLineFromFile(s, translateLine(s, line))

\* max_row_length of the file: [err, val]; i is the loop index
RECURSIVE file_max_row_length_from(_, _, _)

\* the body of the loop, r being at(i)
max_row_length_body(s, i, max, r) ==
    IF r.err # None THEN [err |-> r.err, val |-> 0]
    ELSE file_max_row_length_from(s, i + 1, Max(max, Len(r.row)))

\* the test of the loop, z being size()
max_row_length_test(s, i, max, z) ==
    IF z.err # None THEN [err |-> z.err, val |-> 0]
    ELSE IF i >= z.val THEN [err |-> None, val |-> max]
    ELSE max_row_length_body(s, i, max, at_const(s, i))

file_max_row_length_from(s, i, max) == max_row_length_test(s, i, max, size(s))

file_max_row_length(s) == file_max_row_length_from(s, 0, 0)

\* writeCacheToFile, the loop over the lines of the old file:
\* [err, cache, out, i] with out the lines written so far
RECURSIVE flush_old_lines(_, _, _, _, _, _)

\* a line of the old file that is not cached is parsed and written again
flush_parsed_line(s, lines, i, c, out, maxLength, parsed) ==
    IF parsed.err
    THEN [err |-> ParseError, cache |-> c, out |-> out, i |-> i]
    ELSE flush_old_lines(s, lines, i + 1, c,
             Append(out, row_to_string(parsed.row, maxLength)), maxLength)

flush_old_lines(s, lines, i, c, out, maxLength) ==
    IF i >= Len(lines) THEN [err |-> None, cache |-> c, out |-> out, i |-> i]
    ELSE IF InToDelete(s, i)
         THEN flush_old_lines(s, lines, i + 1, c, out, maxLength)
         ELSE IF i \in DOMAIN c
              THEN flush_old_lines(s, lines, i + 1, cache_erase(c, i),
                                   Append(out, row_to_string(c[i], maxLength)), maxLength)
              ELSE flush_parsed_line(s, lines, i, c, out, maxLength,
                                     row_parse(lines[i + 1]))

\* writeCacheToFile, the lines behind the old file when the cache still
\* holds rows
RECURSIVE flush_cached_tail(_, _, _, _, _, _)
flush_cached_tail(s, c, i, max, out, maxLength) ==
    IF i > max THEN out
    ELSE IF InToDelete(s, i) THEN flush_cached_tail(s, c, i + 1, max, out, maxLength)
    ELSE flush_cached_tail(s, c, i + 1, max,
             Append(out, row_to_string(IF i \in DOMAIN c THEN c[i] ELSE row_nullptr,
                                       maxLength)),
             maxLength)

\* writeCacheToFile, the lines behind the old file when the cache is empty:
\* the first line written is only marked as written
RECURSIVE flush_empty_tail(_, _, _, _, _)
flush_empty_tail(s, i, max, out, maxLength) ==
    IF i > max THEN out
    ELSE IF InToDelete(s, i) THEN flush_empty_tail(s, i + 1, max, out, maxLength)
    ELSE flush_empty_tail(s, i + 1, max,
             Append(out, IF out = <<>> THEN <<>> ELSE row_to_string(row_nullptr, maxLength)),
             maxLength)

\* writeCacheToFile, the lines behind the old file; body is what the loop
\* over the old file left, max is getTranslatedMaxLineIndex() at that point
flush_tail(s, body, max, maxLength) ==
    IF DOMAIN body.cache # {}
    THEN flush_cached_tail(s, body.cache, body.i, max, body.out, maxLength)
    ELSE flush_empty_tail(s, body.i, max, body.out, maxLength)

\* a writeCacheToFile that forgets toDelete.clear()
flush_replace_keeping_deletions(s, written) ==
    [s EXCEPT !.file = written,
              !.cache = EmptyCache,
              !.currentLine = Len(written.segs) - 1]

\* writeCacheToFile, from cache.clear() on: the file is replaced by what
\* was written and currentLine = getLastFileLineIndex()
flush_replace(s, written) ==
    [s EXCEPT !.file = written,
              !.cache = EmptyCache,
              !.toDelete = <<>>,
              !.currentLine = Len(written.segs) - 1]

\* writeCacheToFile after the loop over the old file: [err, s]
flush_after_old_lines(s, body, maxLength) ==
    IF body.err # None
    THEN [err |-> body.err, s |-> [s EXCEPT !.cache = body.cache]]
    ELSE [err |-> None,
          s |-> flush_replace(s, FileOf(join_lines(
                    flush_tail(s, body,
                               getTranslatedMaxLineIndex([s EXCEPT !.cache = body.cache]),
                               maxLength))))]

\* writeCacheToFile after max_row_length(): [err, s]
flush_with_length(s, ml) ==
    IF ml.err # None THEN [err |-> ml.err, s |-> s]
    ELSE flush_after_old_lines(s,
             flush_old_lines(s, get_lines(s.file.segs), 0, s.cache, <<>>, ml.val),
             ml.val)

\* writeCacheToFile: [err, s]
writeCacheToFile(s) == flush_with_length(s, file_max_row_length(s))

\* what a call that ran writeCacheToFile returns: [err, s, flushed]
flushed_result(w) == [err |-> w.err, s |-> w.s, flushed |-> w.err = None]

\* flush: [err, s, flushed]
flush(s) ==
    IF \/ getCacheSize(s) > 0
       \/ getMaxLineIndex(s) < s.currentLine
       \/ s.currentLine # getLastFileLineIndex(s)
    THEN flushed_result(writeCacheToFile(s))
    ELSE [err |-> None, s |-> s, flushed |-> FALSE]

\* writeToFile after cache.insert_or_assign
write_if_full(s) ==
    IF getCacheSize(s) >= s.maxCached
    THEN flushed_result(writeCacheToFile(s))
    ELSE [err |-> None, s |-> s, flushed |-> FALSE]

\* writeToFile: [err, s, flushed]
writeToFile(s, row, line) ==
    write_if_full([s EXCEPT !.cache = cache_insert_or_assign(s.cache, line, row)])

\* getLine, a line that is not cached: r is the row read from the file
cache_line(s, line, r) ==
    IF r.err # None
    THEN [err |-> r.err, s |-> s, flushed |-> FALSE, key |-> line]
    ELSE [err |-> None,
          s |-> [s EXCEPT !.cache = cache_insert_or_assign(s.cache, line, r.row)],
          flushed |-> FALSE, key |-> line]

\* getLine: [err, s, flushed, key]; the row returned is s.cache[key]
getLine(s, line) ==
    IF line > getTranslatedMaxLineIndex(s)
    THEN [err |-> IndexOutOfRange, s |-> s, flushed |-> FALSE, key |-> line]
    ELSE IF line \in DOMAIN s.cache
         THEN [err |-> None, s |-> s, flushed |-> FALSE, key |-> line]
         ELSE cache_line(s, line, getLineFromFile(s, line))

\* getOrCreateLine after writeToFile returned w: the row is put into the
\* cache again if the cache is empty
created_line(w, line) ==
    IF w.err # None
    THEN [err |-> w.err, s |-> w.s, flushed |-> FALSE, key |-> line]
    ELSE [err |-> None,
          s |-> IF DOMAIN w.s.cache = {}
                THEN [w.s EXCEPT !.cache = cache_insert_or_assign(w.s.cache, line, row_nullptr)]
                ELSE w.s,
          flushed |-> w.flushed, key |-> line]

\* getOrCreateLine: [err, s, flushed, key]; the row returned is s.cache[key]
getOrCreateLine(s, line) ==
    IF line <= getTranslatedMaxLineIndex(s) THEN getLine(s, line)
    ELSE created_line(
             writeToFile(IF line > s.currentLine THEN [s EXCEPT !.currentLine = line] ELSE s,
                         row_nullptr, line),
             line)

\* at(line) after the flush of a full cache returned w
at_after_flush(w, line, full) ==
    IF w.err # None
    THEN [err |-> w.err, s |-> w.s, flushed |-> FALSE, key |-> line]
    ELSE [getOrCreateLine(w.s, translateLine(w.s, line)) EXCEPT !.flushed = full \/ @]

\* at(line), full telling whether the cache is flushed first
at_when(s, line, full) ==
    at_after_flush(IF full THEN writeCacheToFile(s) ELSE [err |-> None, s |-> s],
                   line, full)

\* at(line): [err, s, flushed, key]; the row returned is s.cache[key]
at(s, line) ==
    at_when(s, line, line \notin DOMAIN s.cache /\ getCacheSize(s) >= s.maxCached)

\* row << csv_cell(val) on the row a call returned
push_to(r, val) ==
    IF r.err # None THEN r
    ELSE [r EXCEPT !.s.cache[r.key] = Append(@, cell_of(val))]

\* operator<<(const U &val): [err, s, flushed, key]
push(s, val) == push_to(getOrCreateLine(s, s.currentLine), val)

\* file[line] << val: [err, s, flushed, key]
at_push(s, line, val) == push_to(at(s, line), val)

endline(s) == [s EXCEPT !.currentLine = s.currentLine + 1]

\* operator<<(const basic_csv &), the loop: the rows from the i-th on are
\* put into the cache at currentLine, which is increased between two rows
RECURSIVE insert_rows(_, _, _)
insert_rows(s, rows, i) ==
    IF i >= Len(rows) THEN s
    ELSE insert_rows(
             [s EXCEPT !.cache = cache_insert_or_assign(s.cache, s.currentLine, rows[i + 1]),
                       !.currentLine = IF i < Len(rows) - 1 THEN @ + 1 ELSE @],
             rows, i + 1)

\* operator<<(const basic_csv &) after the flush at its end returned f
push_csv_flushed(g, f) == [f EXCEPT !.flushed = @ \/ g.flushed]

\* operator<<(const basic_csv &) after getCurrentLine() returned g
push_csv_to(g, rows) ==
    IF g.err # None THEN [err |-> g.err, s |-> g.s, flushed |-> FALSE]
    ELSE push_csv_flushed(
             g,
             flush(insert_rows(IF g.s.cache[g.key] # <<>> THEN endline(g.s) ELSE g.s,
                               rows, 0)))

\* operator<<(const basic_csv &): [err, s, flushed]
push_csv(s, rows) == push_csv_to(getOrCreateLine(s, s.currentLine), rows)

\* clear(): the cache and the lines to delete are emptied and the file is
\* removed; currentLine is not assigned
clear(s) == [s EXCEPT !.cache = EmptyCache, !.toDelete = <<>>, !.file = NoFile]

\* operator=(const basic_csv &): [err, s, flushed]
assign(s, rows) == push_csv(clear(s), rows)

\* erase(index), the iterator returned when it is end(): end is size()
erase_end(f, end) ==
    [err |-> end.err, s |-> f.s, flushed |-> f.flushed, pos |-> end.val]

\* erase(index) after the flush of a full cache returned f
erase_flushed(index, f) ==
    IF f.err # None
    THEN [err |-> f.err, s |-> f.s, flushed |-> FALSE, pos |-> 0]
    ELSE IF index > getMaxLineIndex(f.s)
         THEN erase_end(f, size(f.s))
         ELSE [err |-> None, s |-> f.s, flushed |-> f.flushed, pos |-> index]

\* erase(index) after the line was added to toDelete
erase_marked(index, s) ==
    erase_flushed(index,
                  IF getCacheSize(s) >= s.maxCached THEN flush(s)
                  ELSE [err |-> None, s |-> s, flushed |-> FALSE])

\* erase(index) after translateLine(index) gave line
erase_line(s, index, line) ==
    erase_marked(index, [s EXCEPT !.cache = cache_erase(s.cache, line),
                                  !.toDelete = sorted_insert(s.toDelete, line)])

\* erase(index): [err, s, flushed, pos] with pos the position of the
\* iterator returned
erase(s, index) ==
    IF index > getMaxLineIndex(s)
    THEN [err |-> IndexOutOfRange, s |-> s, flushed |-> FALSE, pos |-> 0]
    ELSE erase_line(s, index, translateLine(s, index))

\* operator>> after the stream was parsed
read_parsed(f, parsed) ==
    IF parsed.err
    THEN [err |-> ParseError, s |-> f.s, flushed |-> f.flushed, rows |-> <<>>]
    ELSE [err |-> None, s |-> f.s, flushed |-> f.flushed, rows |-> parsed.rows]

\* operator>> after file.flush() returned f
read_flushed(f) ==
    IF f.err # None
    THEN [err |-> f.err, s |-> f.s, flushed |-> FALSE, rows |-> <<>>]
    ELSE read_parsed(f, csv_parse(FileText(f.s.file)))

\* to_basic_csv: [err, s, flushed, rows]
to_basic_csv(s) == read_flushed(flush(s))

----------------------------------------------------------------------------
(* The codec specification: a text and a delimiter are chosen, then the    *)
(* generator's functions are applied to them.                              *)

NoCall == [op |-> "none"]

\* no writeCacheToFile is running
Idle == [step |-> "idle"]

CodecInit ==
    /\ str \in TextsUpTo(MaxLen)
    /\ delim \in {Sep, NL}
    /\ res = NoCall
    /\ file = NoFile /\ cache = EmptyCache /\ toDelete = <<>> /\ currentLine = 0
    /\ maxCached = DefaultMaxCached /\ csv = <<>> /\ ret = NoCall
    /\ tmp = NoFile /\ pc = Idle

Escape ==
    /\ res' = [op |-> "escape_string", out |-> escape_string(str)]
    /\ UNCHANGED <<str, delim>> /\ UNCHANGED tableVars

EscapeUnescape ==
    /\ res' = [op |-> "unescape_string",
               out |-> unescape_string(escape_string(str), FALSE)]
    /\ UNCHANGED <<str, delim>> /\ UNCHANGED tableVars

Split ==
    /\ res' = [op |-> "splitString", out |-> splitString(str, delim)]
    /\ UNCHANGED <<str, delim>> /\ UNCHANGED tableVars

RowParse ==
    /\ res' = [op |-> "row_parse", out |-> row_parse(str)]
    /\ UNCHANGED <<str, delim>> /\ UNCHANGED tableVars

CsvParse ==
    /\ res' = [op |-> "csv_parse", out |-> csv_parse(str)]
    /\ UNCHANGED <<str, delim>> /\ UNCHANGED tableVars

\* csv_cell(const T &val)
CellOf ==
    /\ res' = [op |-> "csv_cell", out |-> cell_of(str)]
    /\ UNCHANGED <<str, delim>> /\ UNCHANGED tableVars

CodecNext == Escape \/ EscapeUnescape \/ Split \/ RowParse \/ CsvParse \/ CellOf

SpecCodec == CodecInit /\ [][CodecNext]_vars

----------------------------------------------------------------------------
(* The table specification: calls on one basic_csv_file.                   *)

\* Highest line index the calls may reach.
MaxLine == 2

\* Most cells the calls put in one row.
MaxCells == 2

\* A cache size small enough for the cache to fill up.
SmallCache == 2

\* The values written to the table.
Values == {<<"a">>}

\* the table the variables describe
St == [file |-> file, cache |-> cache, toDelete |-> toDelete,
       currentLine |-> currentLine, maxCached |-> maxCached]

WithinBounds(s) ==
    /\ getTranslatedMaxLineIndex(s) <= MaxLine
    /\ \A k \in DOMAIN s.cache : Len(s.cache[k]) <= MaxCells

\* the variables take the state a call left
Becomes(s) ==
    /\ file' = s.file
    /\ cache' = s.cache
    /\ toDelete' = s.toDelete
    /\ currentLine' = s.currentLine
    /\ maxCached' = s.maxCached

Call(op, index, r, val) ==
    [op |-> op, index |-> index, err |-> r.err, flushed |-> r.flushed, val |-> val]

\* the constructor: currentLine is the index of the last line of the file
TableInit ==
    /\ file \in {NoFile, EmptyFile}
    /\ cache = EmptyCache
    /\ toDelete = <<>>
    /\ currentLine = getLastFileLineIndex([file |-> file])
    /\ maxCached \in {SmallCache, DefaultMaxCached}
    /\ ret = NoCall
    /\ tmp = NoFile /\ pc = Idle

Init ==
    /\ TableInit
    /\ csv = <<>>
    /\ str = <<>> /\ delim = Sep /\ res = NoCall

\* a call that returned r is taken when it stays within the bounds
Returns(op, index, r) ==
    /\ WithinBounds(r.s)
    /\ Becomes(r.s)
    /\ ret' = Call(op, index, r, 0)

\* file << val
PushStep(val) == Returns("push", 0, push(St, val))

\* file << csv::endl
EndlineStep ==
    /\ currentLine < MaxLine
    /\ Becomes(endline(St))
    /\ ret' = [op |-> "endline", index |-> 0, err |-> None, flushed |-> FALSE, val |-> 0]

\* file[index] << val
AtPushStep(index, val) == Returns("at", index, at_push(St, index, val))

ErasedAt(index, r) ==
    /\ Becomes(r.s)
    /\ ret' = Call("erase", index, r, r.pos)

\* file.erase(index)
EraseStep(index) ==
    /\ translateLine(St, index) <= MaxLine + 1
    /\ ErasedAt(index, erase(St, index))

Flushed(r) ==
    /\ Becomes(r.s)
    /\ ret' = Call("flush", 0, r, 0)

\* file.flush()
FlushStep == Flushed(flush(St))

Sized(z) ==
    /\ UNCHANGED <<file, cache, toDelete, currentLine, maxCached>>
    /\ ret' = [op |-> "size", index |-> 0, err |-> z.err, flushed |-> FALSE,
               val |-> z.val]

\* file.size()
SizeStep == Sized(size(St))

Read(index, r) ==
    /\ UNCHANGED <<file, cache, toDelete, currentLine, maxCached>>
    /\ ret' = [op |-> "read", index |-> index, err |-> r.err, flushed |-> FALSE,
               val |-> 0]

\* file.at(index) of a const table: nothing of the table is assigned
ReadStep(index) == Read(index, at_const(St, index))

\* the rows of the documents that are appended to the table
DocumentRows == {row_nullptr, <<cell_of(<<"a">>)>>}

MaxDocument == 2

Documents == UNION {[1..n -> DocumentRows] : n \in 0..MaxDocument}

PushedCsv(rows, r) ==
    /\ WithinBounds(r.s)
    /\ Becomes(r.s)
    /\ ret' = Call("push_csv", 0, r, rows)

\* file << document
PushCsvStep(rows) == PushedCsv(rows, push_csv(St, rows))

ReadAll(r) ==
    /\ Becomes(r.s)
    /\ ret' = Call("to_basic_csv", 0, r, 0)

\* file.to_basic_csv()
ToBasicCsvStep == ReadAll(to_basic_csv(St))

Push == \E val \in Values : PushStep(val) /\ UNCHANGED csv /\ UNCHANGED <<codecVars, flushVars>>

Endline == EndlineStep /\ UNCHANGED csv /\ UNCHANGED <<codecVars, flushVars>>

AtPush ==
    \E index \in 0..MaxLine, val \in Values :
        AtPushStep(index, val) /\ UNCHANGED csv /\ UNCHANGED <<codecVars, flushVars>>

Erase ==
    \E index \in 0..MaxLine : EraseStep(index) /\ UNCHANGED csv /\ UNCHANGED <<codecVars, flushVars>>

Flush == FlushStep /\ UNCHANGED csv /\ UNCHANGED <<codecVars, flushVars>>

Size == SizeStep /\ UNCHANGED csv /\ UNCHANGED <<codecVars, flushVars>>

AtConst ==
    \E index \in 0..(MaxLine + 1) :
        ReadStep(index) /\ UNCHANGED csv /\ UNCHANGED <<codecVars, flushVars>>

PushCsv ==
    /\ \E rows \in Documents : PushCsvStep(rows)
    /\ UNCHANGED csv /\ UNCHANGED <<codecVars, flushVars>>

ToBasicCsv == ToBasicCsvStep /\ UNCHANGED csv /\ UNCHANGED <<codecVars, flushVars>>

Next ==
    \/ Push \/ Endline \/ AtPush \/ Erase \/ Flush \/ Size \/ AtConst
    \/ ToBasicCsv \/ PushCsv

Spec == Init /\ [][Next]_vars

----------------------------------------------------------------------------
(* The flush specification: the table is written as in Spec, and flush()   *)
(* runs writeCacheToFile statement by statement, so that every state       *)
(* between two statements is a state of the model.  pc holds the statement *)
(* reached, the file as it was when the call began (old), the file the     *)
(* call is going to leave (new) and the locals of the call.                *)

\* flush() finds something to write: std::remove(tmp), the stream out is
\* opened on the tmp file, max_row_length() is computed
FlushBegin ==
    /\ pc = Idle
    /\ flush(St).flushed
    /\ tmp' = EmptyFile
    /\ pc' = [step |-> "opened", old |-> file, new |-> flush(St).s.file,
              maxLength |-> file_max_row_length(St).val, i |-> 0, out |-> <<>>]
    /\ UNCHANGED <<file, cache, toDelete, currentLine, maxCached, ret, csv, codecVars>>

\* the loop over the lines of the old file
FlushOldLines ==
    /\ pc.step = "opened"
    /\ LET body == flush_old_lines(St, get_lines(file.segs), 0, cache, <<>>, pc.maxLength)
       IN  /\ cache' = body.cache
           /\ tmp' = FileOf(join_lines(body.out))
           /\ pc' = [pc EXCEPT !.step = "old_lines", !.i = body.i, !.out = body.out]
    /\ UNCHANGED <<file, toDelete, currentLine, maxCached, ret, csv, codecVars>>

\* the lines behind the old file, out.flush() and out.close()
FlushTail ==
    /\ pc.step = "old_lines"
    /\ tmp' = FileOf(join_lines(
                  flush_tail(St, [cache |-> cache, i |-> pc.i, out |-> pc.out],
                             getTranslatedMaxLineIndex(St), pc.maxLength)))
    /\ pc' = [pc EXCEPT !.step = "closed"]
    /\ UNCHANGED <<file, cache, toDelete, currentLine, maxCached, ret, csv, codecVars>>

\* cache.clear() and toDelete.clear()
FlushClear ==
    /\ pc.step = "closed"
    /\ cache' = EmptyCache
    /\ toDelete' = <<>>
    /\ pc' = [pc EXCEPT !.step = "cleared"]
    /\ UNCHANGED <<file, tmp, currentLine, maxCached, ret, csv, codecVars>>

\* std::remove(path)
FlushRemove ==
    /\ pc.step = "cleared"
    /\ file' = NoFile
    /\ pc' = [pc EXCEPT !.step = "removed"]
    /\ UNCHANGED <<tmp, cache, toDelete, currentLine, maxCached, ret, csv, codecVars>>

\* std::rename(tmp, path)
FlushRename ==
    /\ pc.step = "removed"
    /\ file' = tmp
    /\ tmp' = NoFile
    /\ pc' = [pc EXCEPT !.step = "renamed"]
    /\ UNCHANGED <<cache, toDelete, currentLine, maxCached, ret, csv, codecVars>>

\* currentLine = getLastFileLineIndex(), and flush() returns
FlushEnd ==
    /\ pc.step = "renamed"
    /\ currentLine' = getLastFileLineIndex(St)
    /\ pc' = Idle
    /\ ret' = [op |-> "flush", index |-> 0, err |-> None, flushed |-> TRUE, val |-> 0]
    /\ UNCHANGED <<file, tmp, cache, toDelete, maxCached, csv, codecVars>>

\* a call on the table is made when no flush() is running
FlushIdleCall == pc = Idle /\ (Push \/ Endline \/ AtPush \/ Erase)

FlushNext ==
    \/ FlushIdleCall
    \/ FlushBegin \/ FlushOldLines \/ FlushTail \/ FlushClear
    \/ FlushRemove \/ FlushRename \/ FlushEnd

SpecFlush == Init /\ [][FlushNext]_vars

----------------------------------------------------------------------------
(* The parity specification: every call is made on a basic_csv_file and    *)
(* on a basic_csv that both start empty.                                   *)

\* the document stays within the bounds of the table
DocumentWithinBounds(rows) ==
    /\ Len(rows) <= MaxLine + 1
    /\ \A k \in 1..Len(rows) : Len(rows[k]) <= MaxCells

ParityInit ==
    /\ TableInit
    /\ csv = <<>>
    /\ str = <<>> /\ delim = Sep /\ res = NoCall

ParityPush ==
    \E val \in Values :
        /\ PushStep(val)
        /\ DocumentWithinBounds(csv_push(csv, val))
        /\ csv' = csv_push(csv, val)
        /\ UNCHANGED <<codecVars, flushVars>>

ParityEndline ==
    /\ EndlineStep
    /\ DocumentWithinBounds(csv_endline(csv))
    /\ csv' = csv_endline(csv)
    /\ UNCHANGED <<codecVars, flushVars>>

ParityAtPush ==
    \E index \in 0..MaxLine, val \in Values :
        /\ AtPushStep(index, val)
        /\ DocumentWithinBounds(csv_at_push(csv, index, val))
        /\ csv' = csv_at_push(csv, index, val)
        /\ UNCHANGED <<codecVars, flushVars>>

ParityErase ==
    \E index \in 0..MaxLine :
        /\ index < Len(csv)
        /\ EraseStep(index)
        /\ csv' = csv_erase(csv, index)
        /\ UNCHANGED <<codecVars, flushVars>>

ParityFlush == FlushStep /\ UNCHANGED csv /\ UNCHANGED <<codecVars, flushVars>>

ParityNext ==
    ParityPush \/ ParityEndline \/ ParityAtPush \/ ParityErase \/ ParityFlush

SpecParity == ParityInit /\ [][ParityNext]_vars

----------------------------------------------------------------------------
(* The document specification: a basic_csv is filled by operator<< and     *)
(* endline(), written by to_string() and read back by parse().             *)

DocRows == 2
DocCells == 2
DocValues == {<<>>, <<"a">>, <<Sep>>, <<QUOTE>>, <<NL>>}

DocInit ==
    /\ csv = <<>>
    /\ str = <<>> /\ delim = NL /\ res = NoCall
    /\ file = NoFile /\ cache = EmptyCache /\ toDelete = <<>>
    /\ currentLine = 0 /\ maxCached = DefaultMaxCached /\ ret = NoCall
    /\ tmp = NoFile /\ pc = Idle

DocPush ==
    \E val \in DocValues :
        /\ IF csv = <<>> THEN TRUE ELSE Len(csv[Len(csv)]) < DocCells
        /\ DocumentWithinBounds(csv_push(csv, val))
        /\ csv' = csv_push(csv, val)
        /\ str' = <<>> /\ res' = NoCall
        /\ UNCHANGED <<delim, fileVars>>

DocEndline ==
    /\ Len(csv) < DocRows
    /\ DocumentWithinBounds(csv_endline(csv))
    /\ csv' = csv_endline(csv)
    /\ str' = <<>> /\ res' = NoCall
    /\ UNCHANGED <<delim, fileVars>>

\* basic_csv::parse(csv.to_string())
DocRoundTrip ==
    /\ str' = csv_to_string(csv)
    /\ res' = [op |-> "roundtrip", out |-> csv_parse(csv_to_string(csv))]
    /\ UNCHANGED <<csv, delim, fileVars>>

\* csv.at(index)
DocAt ==
    \E index \in 0..DocRows :
        /\ DocumentWithinBounds(csv_at(csv, index))
        /\ csv' = csv_at(csv, index)
        /\ res' = [op |-> "csv_at", index |-> index, out |-> csv_at(csv, index)[index + 1]]
        /\ str' = <<>>
        /\ UNCHANGED <<delim, fileVars>>

\* csv.at(line).at(index) on a row the document has
DocRowAt ==
    \E line \in 1..Len(csv), index \in 0..(DocCells - 1) :
        /\ csv' = [csv EXCEPT ![line] = row_at(@, index)]
        /\ res' = [op |-> "row_at", line |-> line, index |-> index,
                   out |-> row_at(csv[line], index)[index + 1]]
        /\ str' = <<>>
        /\ UNCHANGED <<delim, fileVars>>

DocNext == DocPush \/ DocEndline \/ DocRoundTrip \/ DocAt \/ DocRowAt

SpecDocument == DocInit /\ [][DocNext]_vars

----------------------------------------------------------------------------
(* The deletion specification: a table is written from a document and      *)
(* flushed, then the loop                                                  *)
(*     it = begin(); while (it != end()) it = erase(it);                   *)
(* runs on it, size() is read, flush() is called and size() is read again. *)
(* pc holds the statement reached, the position of the iterator (it), the  *)
(* number of calls of erase (erased), size() before the loop (n), after    *)
(* the loop (before) and after the flush (after).                          *)

\* the table the constructor leaves on a path without file or with an
\* empty file f
NewTable(f, max) ==
    [file |-> f, cache |-> EmptyCache, toDelete |-> <<>>,
     currentLine |-> 0, maxCached |-> max]

\* the rows of the documents the table is written from
DeleteRows == {row_nullptr, <<cell_of(<<"a">>)>>, <<cell_of(<<"a">>), cell_of(<<"a">>)>>}

MaxDeleteRows == 3

DeleteDocuments == UNION {[1..n -> DeleteRows] : n \in 0..MaxDeleteRows}

MaxCachedValues == {0, 1, SmallCache, DefaultMaxCached}

\* the variables are the flushed table s before the loop
DeleteTable(s) ==
    /\ file = s.file /\ cache = s.cache /\ toDelete = s.toDelete
    /\ currentLine = s.currentLine /\ maxCached = s.maxCached
    /\ pc = [step |-> "begin", it |-> 0, erased |-> 0, n |-> size(s).val,
             before |-> 0, after |-> 0]

\* the variables are the table that file << document left, w being what
\* the call returned
DeleteFrom(w) ==
    /\ w.err = None
    /\ size(w.s).err = None
    /\ DeleteTable(w.s)

DeleteInit ==
    /\ csv \in DeleteDocuments
    /\ \E f \in {NoFile, EmptyFile}, max \in MaxCachedValues :
          DeleteFrom(push_csv(NewTable(f, max), csv))
    /\ ret = NoCall /\ tmp = NoFile
    /\ str = <<>> /\ delim = Sep /\ res = NoCall

\* a statement of the loop threw an exception
Thrown == [pc EXCEPT !.step = "thrown"]

\* it = begin()
DeleteBegin ==
    /\ pc.step = "begin"
    /\ pc' = [pc EXCEPT !.step = "test", !.it = 0]
    /\ UNCHANGED <<file, cache, toDelete, currentLine, maxCached, ret, tmp, csv, codecVars>>

\* size() returned z: the loop goes on at then unless size() threw
DeleteSizeRead(z, then) ==
    /\ pc' = IF z.err # None THEN Thrown ELSE then
    /\ ret' = [op |-> "size", index |-> 0, err |-> z.err, flushed |-> FALSE,
               val |-> z.val]
    /\ UNCHANGED <<file, cache, toDelete, currentLine, maxCached>>

\* it != end(), end() being iterator(this, size())
DeleteTest ==
    /\ pc.step = "test"
    /\ DeleteSizeRead(size(St),
                      [pc EXCEPT !.step = IF pc.it # size(St).val THEN "erase" ELSE "size"])
    /\ UNCHANGED <<tmp, csv, codecVars>>

\* it = erase(it), erase returning r
DeleteErased(r) ==
    /\ Becomes(r.s)
    /\ ret' = Call("erase", pc.it, r, r.pos)
    /\ pc' = IF r.err # None THEN Thrown
             ELSE [pc EXCEPT !.step = "test", !.it = r.pos, !.erased = @ + 1]

\* the loop is followed for one call of erase more than the table had rows
DeleteErase ==
    /\ pc.step = "erase"
    /\ pc.erased <= pc.n
    /\ DeleteErased(erase(St, pc.it))
    /\ UNCHANGED <<tmp, csv, codecVars>>

\* size() after the loop
DeleteSize ==
    /\ pc.step = "size"
    /\ DeleteSizeRead(size(St), [pc EXCEPT !.step = "flush", !.before = size(St).val])
    /\ UNCHANGED <<tmp, csv, codecVars>>

\* flush() after the loop, returning r
DeleteFlushed(r) ==
    /\ Becomes(r.s)
    /\ ret' = Call("flush", 0, r, 0)
    /\ pc' = IF r.err # None THEN Thrown ELSE [pc EXCEPT !.step = "size_flushed"]

DeleteFlush ==
    /\ pc.step = "flush"
    /\ DeleteFlushed(flush(St))
    /\ UNCHANGED <<tmp, csv, codecVars>>

\* size() after the flush
DeleteSizeFlushed ==
    /\ pc.step = "size_flushed"
    /\ DeleteSizeRead(size(St), [pc EXCEPT !.step = "done", !.after = size(St).val])
    /\ UNCHANGED <<tmp, csv, codecVars>>

DeleteNext ==
    \/ DeleteBegin \/ DeleteTest \/ DeleteErase
    \/ DeleteSize \/ DeleteFlush \/ DeleteSizeFlushed

\* a statement of the loop is left to run: ENABLED <<DeleteNext>>_vars
DeleteEnabled ==
    /\ pc.step \in {"begin", "test", "erase", "size", "flush", "size_flushed"}
    /\ pc.step = "erase" => pc.erased <= pc.n

\* the loop is one thread of control, it takes its next statement as long
\* as one is left: WF_vars(DeleteNext) with ENABLED written as DeleteEnabled
DeleteFair == []<>(~DeleteEnabled) \/ []<><<DeleteNext>>_vars

SpecDelete == DeleteInit /\ [][DeleteNext]_vars /\ DeleteFair

----------------------------------------------------------------------------
(* The comparison specification: a document is chosen and one call is made *)
(* on it: operator== with a second document, to_string() of the document   *)
(* or of a row, or strip().  The cells are an empty cell, a cell           *)
(* constructed from "a" and the two parsed fields "a" and "" in quotation  *)
(* marks.                                                                  *)

CompareCells == {cell_nullptr, cell_of(<<"a">>), cell_parse(<<QUOTE, "a", QUOTE>>),
                 cell_parse(<<QUOTE, QUOTE>>)}

MaxCompareCells == 2

MaxCompareRows == 2

CompareRows == UNION {[1..n -> CompareCells] : n \in 0..MaxCompareCells}

CompareDocuments == UNION {[1..n -> CompareRows] : n \in 0..MaxCompareRows}

CompareInit ==
    /\ csv \in CompareDocuments
    /\ str = <<>> /\ delim = Sep /\ res = NoCall
    /\ file = NoFile /\ cache = EmptyCache /\ toDelete = <<>>
    /\ currentLine = 0 /\ maxCached = DefaultMaxCached /\ ret = NoCall
    /\ tmp = NoFile /\ pc = Idle

\* csv == other, the one call of a behaviour
Compare ==
    \E other \in CompareDocuments :
        /\ res = NoCall
        /\ res' = [op |-> "equals", other |-> other, out |-> csv_equals(csv, other)]
        /\ UNCHANGED <<csv, str, delim, fileVars>>

\* csv.to_string()
DocToString ==
    /\ res = NoCall
    /\ res' = [op |-> "to_string", out |-> csv_to_string(csv)]
    /\ UNCHANGED <<csv, str, delim, fileVars>>

\* csv.at(line).to_string(len)
RowToString ==
    \E line \in 1..Len(csv), len \in 0..(MaxCompareCells + 1) :
        /\ res = NoCall
        /\ res' = [op |-> "row_to_string", line |-> line, len |-> len,
                   out |-> row_to_string(csv[line], len)]
        /\ UNCHANGED <<csv, str, delim, fileVars>>

\* csv.strip()
DocStrip ==
    /\ res = NoCall
    /\ csv' = csv_strip(csv)
    /\ res' = [op |-> "strip", before |-> csv]
    /\ UNCHANGED <<str, delim, fileVars>>

CompareNext == Compare \/ DocToString \/ RowToString \/ DocStrip

SpecCompare == CompareInit /\ [][CompareNext]_vars

----------------------------------------------------------------------------
(* The assignment specification: a table is written with appends, line     *)
(* ends, erasures and flushes as in Spec, and at any point it is cleared   *)
(* or a document is assigned to it.                                        *)

Cleared(s) ==
    /\ Becomes(s)
    /\ ret' = [op |-> "clear", index |-> 0, err |-> None, flushed |-> FALSE, val |-> 0]

\* file.clear()
ClearStep == Cleared(clear(St))

Assigned(rows, r) ==
    /\ WithinBounds(r.s)
    /\ Becomes(r.s)
    /\ ret' = Call("assign", 0, r, rows)

\* file = document
AssignStep(rows) == Assigned(rows, assign(St, rows))

Clear == ClearStep /\ UNCHANGED csv /\ UNCHANGED <<codecVars, flushVars>>

Assign ==
    /\ \E rows \in Documents : AssignStep(rows)
    /\ UNCHANGED csv /\ UNCHANGED <<codecVars, flushVars>>

AssignNext == Push \/ Endline \/ Erase \/ Flush \/ Clear \/ Assign

SpecAssign == Init /\ [][AssignNext]_vars

----------------------------------------------------------------------------
(* Properties of the codec *)

RECURSIVE QuoteCount(_)
QuoteCount(s) ==
    IF s = <<>> THEN 0
    ELSE (IF Head(s) = QUOTE THEN 1 ELSE 0) + QuoteCount(Tail(s))

EvenQuotes(s) == QuoteCount(s) % 2 = 0

\* zero-based positions of the delimiters of s that lie outside quoted spans
UnquotedDelims(s, d) ==
    {p \in 0..(Len(s) - 1) : s[p + 1] = d /\ EvenQuotes(SubSeq(s, 1, p))}

EndsWithUnquoted(s, d) == s # <<>> /\ (Len(s) - 1) \in UnquotedDelims(s, d)

RECURSIVE Join(_, _)
Join(tokens, d) ==
    IF tokens = <<>> THEN <<>>
    ELSE IF Len(tokens) = 1 THEN tokens[1]
    ELSE tokens[1] \o <<d>> \o Join(Tail(tokens), d)

\* zero-based position in the text right after token k of a token list
RECURSIVE TokenEnd(_, _)
TokenEnd(tokens, k) ==
    IF k = 0 THEN -1 ELSE TokenEnd(tokens, k - 1) + 1 + Len(tokens[k])

CutPositions(tokens, s) ==
    {TokenEnd(tokens, k) : k \in 1..Len(tokens)} \cap (0..(Len(s) - 1))

IsSpecial(s) == Contains(s, Sep) \/ Contains(s, NL) \/ Contains(s, QUOTE)

\* s wrapped in quotes with every quote doubled, stated position by position
IsQuotedForm(out, s) ==
    LET place(k) == 1 + k + QuoteCount(SubSeq(s, 1, k - 1))
    IN  /\ Len(out) = Len(s) + QuoteCount(s) + 2
        /\ out[1] = QUOTE /\ out[Len(out)] = QUOTE
        /\ \A k \in 1..Len(s) :
              /\ out[place(k)] = s[k]
              /\ s[k] = QUOTE => out[place(k) + 1] = QUOTE

\* C5: unescaping an escaped text gives the text back:
\* unescape_string(escape_string(s), false) = s for every text s.
C5_EscapeRoundTrip ==
    res.op = "unescape_string" => res.out = str

C5_Witness ==
    /\ res.op = "unescape_string"
    /\ Len(str) >= 3 /\ str[1] = QUOTE /\ str[Len(str)] = QUOTE
    /\ Contains(str, Sep)
    /\ res.out = str

\* C6: splitString cuts the text exactly at the delimiters outside quoted
\* spans: the cut positions are the unquoted delimiter positions, no token
\* holds an unquoted delimiter, every token keeps its escaped text and has an
\* even number of quotes, and joining the tokens with a non-newline delimiter
\* gives the text back (for a newline, the text without its final newline).
C6_QuoteAwareSplit ==
    (res.op = "splitString" /\ ~res.out.err) =>
        LET tokens == res.out.tokens
        IN  /\ CutPositions(tokens, str) = UnquotedDelims(str, delim)
            /\ \A k \in 1..Len(tokens) :
                  /\ EvenQuotes(tokens[k])
                  /\ UnquotedDelims(tokens[k], delim) = {}
            /\ delim # NL => Join(tokens, delim) = str
            /\ delim = NL =>
                  Join(tokens, delim) =
                      IF EndsWithUnquoted(str, NL)
                      THEN SubSeq(str, 1, Len(str) - 1) ELSE str

C6_Witness ==
    /\ res.op = "splitString" /\ ~res.out.err
    /\ delim = Sep
    /\ \E p \in 0..(Len(str) - 1) :
          str[p + 1] = Sep /\ p \notin UnquotedDelims(str, Sep)
    /\ UnquotedDelims(str, Sep) # {}
    /\ Len(res.out.tokens) = 2

\* C7: splitString, and with it the row and document parse, fails with a
\* parse error exactly for the texts with an odd number of double quotes.
C7_MalformedQuoting ==
    (res.op \in {"splitString", "row_parse", "csv_parse"}) =>
        (res.out.err <=> ~EvenQuotes(str))

C7_Witness ==
    /\ res.op = "splitString" /\ res.out.err
    /\ QuoteCount(str) = 3
    /\ Contains(str, delim)

\* C8 as stated: a non-empty text ending with an unquoted delimiter gets one
\* extra empty final token unless the delimiter is a newline, and a row text
\* with k unquoted separators always parses to k + 1 fields.
C8_TrailingSeparatorOriginal ==
    /\ (res.op = "splitString" /\ ~res.out.err /\ EndsWithUnquoted(str, delim)) =>
          LET tokens == res.out.tokens
              k == Cardinality(UnquotedDelims(str, delim))
          IN  IF delim # NL
              THEN Len(tokens) = k + 1 /\ tokens[Len(tokens)] = <<>>
              ELSE Len(tokens) = k
    /\ (res.op = "row_parse" /\ ~res.out.err) =>
          Len(res.out.row) = Cardinality(UnquotedDelims(str, Sep)) + 1

\* C8 amended: as C8, but only a non-empty row text with k unquoted
\* separators parses to k + 1 fields; the empty row text parses to a row
\* with no field.
C8_TrailingSeparator ==
    /\ (res.op = "splitString" /\ ~res.out.err /\ EndsWithUnquoted(str, delim)) =>
          LET tokens == res.out.tokens
              k == Cardinality(UnquotedDelims(str, delim))
          IN  IF delim # NL
              THEN Len(tokens) = k + 1 /\ tokens[Len(tokens)] = <<>>
              ELSE Len(tokens) = k
    /\ (res.op = "row_parse" /\ ~res.out.err) =>
          IF str = <<>> THEN res.out.row = <<>>
          ELSE Len(res.out.row) = Cardinality(UnquotedDelims(str, Sep)) + 1

C8_Witness ==
    /\ res.op = "row_parse" /\ ~res.out.err
    /\ EndsWithUnquoted(str, Sep)
    /\ Cardinality(UnquotedDelims(str, Sep)) = 2
    /\ Len(res.out.row) = 3 /\ res.out.row[3] = <<>>

\* C9: escape_string returns the text unchanged exactly when it holds no
\* separator, newline or double quote; otherwise it returns the text
\* between two double quotes with every double quote of it doubled.
C9_EscapeString ==
    res.op = "escape_string" =>
        /\ (res.out = str) <=> ~IsSpecial(str)
        /\ IsSpecial(str) => IsQuotedForm(res.out, str)

C9_Witness ==
    /\ res.op = "escape_string"
    /\ Contains(str, QUOTE) /\ Contains(str, Sep) /\ Contains(str, "a")
    /\ Len(res.out) = Len(str) + QuoteCount(str) + 2

----------------------------------------------------------------------------
(* Properties of the table *)

\* j is the index of a row of the table s
IsRow(s, j) == size(s).err = None /\ j < size(s).val

\* two results of at(line) const are the same: the same exception, or
\* rows that are equal
SameRow(a, b) == a.err = b.err /\ (a.err = None => row_equals(a.row, b.row))

\* the number of lines of the file's text
PhysicalLines(f) == IF f.segs = <<<<>>>> THEN 0 ELSE Len(f.segs)

\* the table has no row: nothing in the file, nothing in the cache and
\* no line begun
NoRows(s) ==
    /\ s.file.segs = <<<<>>>>
    /\ DOMAIN s.cache = {}
    /\ s.currentLine = 0

\* the line indices up to the highest one present that are not pending
\* deletion
LogicalRowCount(s) ==
    IF NoRows(s) THEN 0
    ELSE Cardinality({i \in 0..getTranslatedMaxLineIndex(s) : ~InToDelete(s, i)})

\* C1: after the same calls on a table and a document that both start
\* empty, size() of the table is the document's size() and to_basic_csv()
\* of the table equals the document.
C1_Parity ==
    ret.op # "none" =>
        /\ size(St) = [err |-> None, val |-> Len(csv)]
        /\ LET t == to_basic_csv(St)
           IN  t.err = None /\ csv_equals(t.rows, csv)

\* C2: an erase(i) that does not flush leaves at(j) unchanged for j < i,
\* makes at(j) the row that was at j + 1 for j >= i, and no index is
\* translated to the erased line any more.
C2_IndexStability ==
    [][(ret'.op = "erase" /\ ret'.err = None /\ ~ret'.flushed /\ IsRow(St, ret'.index)) =>
          LET i == ret'.index
          IN  /\ \A j \in 0..MaxLine :
                    /\ (j < i /\ IsRow(St, j)) =>
                          SameRow(at_const(St', j), at_const(St, j))
                    /\ (j >= i /\ IsRow(St, j + 1)) =>
                          SameRow(at_const(St', j), at_const(St, j + 1))
              /\ \A j \in 0..MaxLine :
                    IsRow(St', j) => translateLine(St', j) # translateLine(St, i)
      ]_vars

\* C3: a flush() that returns leaves size() and every at(i), i < size(),
\* as they were, and the file then has size() lines.
C3_FlushKeepsTable ==
    [][(ret'.op = "flush" /\ ret'.err = None) =>
          /\ size(St') = size(St)
          /\ \A j \in 0..MaxLine :
                IsRow(St, j) => SameRow(at_const(St', j), at_const(St, j))
          /\ size(St').err = None => PhysicalLines(file') = size(St').val
      ]_vars

\* C10: size() is the number of line indices up to the highest one in the
\* file, the cache or currentLine that are not pending deletion, and
\* empty() holds exactly when the table has no row in the file or the
\* cache.
C10_SizeIsRowCount ==
    (ret.op = "size" /\ ret.err = None) =>
        /\ ret.val = LogicalRowCount(St)
        /\ empty(St).val <=> NoRows(St)

\* C4: a document written by to_string() and read back by parse() is
\* equal to the document, whatever its rows are.
C4_DocumentRoundTrip ==
    res.op = "roundtrip" =>
        /\ ~res.out.err
        /\ csv_equals(res.out.rows, csv)

\* nothing is cached or pending, currentLine is the last line of the file
\* and every logical index is the physical line
Collapsed(s) ==
    /\ DOMAIN s.cache = {}
    /\ s.toDelete = <<>>
    /\ s.currentLine = getLastFileLineIndex(s)
    /\ \A i \in 0..(MaxLine + 1) : translateLine(s, i) = i

\* the state in which getOrCreateLine(line) calls writeToFile
BeforeWrite(s, line) ==
    IF line > s.currentLine THEN [s EXCEPT !.currentLine = line] ELSE s

\* C11: after a flush, explicit or automatic, cache and toDelete are
\* empty, currentLine is the index of the last line of the file and
\* logical index i is physical line i.  The flushes are flush(), the one
\* at the start of at(i), the one of writeToFile and the one of erase(i).
C11_FlushCollapses ==
    /\ flush(St).flushed => Collapsed(flush(St).s)
    /\ writeCacheToFile(St).err = None => Collapsed(writeCacheToFile(St).s)
    /\ \A line \in 0..(MaxLine + 1) :
          writeToFile(BeforeWrite(St, line), row_nullptr, line).flushed =>
              Collapsed(writeToFile(BeforeWrite(St, line), row_nullptr, line).s)
    /\ (ret.op \in {"flush", "erase"} /\ ret.err = None /\ ret.flushed) => Collapsed(St)

\* an erase that flushed a table which still has a row
C11_Witness ==
    /\ ret.op = "erase" /\ ret.err = None /\ ret.flushed
    /\ Collapsed(St)
    /\ file.segs # <<<<>>>>

\* C12: a write (operator<<, at(i), erase(i)) that returns without having
\* flushed leaves fewer than maxCached cached rows and pending deletions:
\* the automatic flush happens as soon as the threshold is reached.
C12_ThresholdFlush ==
    (ret.op \in {"push", "at", "erase"} /\ ret.err = None /\ ~ret.flushed) =>
        getCacheSize(St) < maxCached

\* C13: erase(i) with i >= size() throws index_out_of_range_error and
\* leaves cache, toDelete, currentLine and the file as they were.
C13_EraseOutOfRange ==
    [][(ret'.op = "erase" /\ size(St).err = None /\ ret'.index >= size(St).val) =>
          /\ ret'.err = IndexOutOfRange
          /\ St' = St
      ]_vars

\* C14: at(i) of a const table throws index_out_of_range_error for every
\* i >= size(), and in no case changes cache, toDelete, currentLine or
\* the file.
C14_ReadOutOfRange ==
    [][ret'.op = "read" =>
          /\ St' = St
          /\ (size(St).err = None /\ ret'.index >= size(St).val) =>
                ret'.err = IndexOutOfRange
      ]_vars

\* the row is empty, as at(j) returns it
IsEmptyRow(r) == r.err = None /\ min_size(r.row) = 0

\* C15: file[i] never throws index_out_of_range_error; for i >= size() it
\* makes row i the last row (size() == i + 1), leaves the rows below the
\* old size() as they were and the rows from the old size() up to i empty.
C15_AtGrows ==
    [][ret'.op = "at" =>
          /\ ret'.err # IndexOutOfRange
          /\ (size(St).err = None /\ ret'.index >= size(St).val) =>
                /\ ret'.err = None
                /\ size(St') = [err |-> None, val |-> ret'.index + 1]
                /\ \A j \in 0..MaxLine :
                      /\ j < size(St).val =>
                            SameRow(at_const(St', j), at_const(St, j))
                      /\ (size(St).val <= j /\ j < ret'.index) =>
                            IsEmptyRow(at_const(St', j))
      ]_vars

\* C16: while writeCacheToFile runs on an existing file, the file at
\* `path` exists at every statement and holds the complete old or the
\* complete new content, and it is the old content as long as the tmp
\* file is not completely written.
C16_AtomicReplacement ==
    (pc.step # "idle" /\ pc.old.exists) =>
        /\ file.exists
        /\ file = pc.old \/ file = pc.new
        /\ pc.step \in {"opened", "old_lines"} => file = pc.old

\* C17: to_basic_csv() yields a document with size() rows whose row i is
\* at(i), size() and at(i) taken before the call, and leaves cache and
\* toDelete empty.
C17_FullRead ==
    [][(ret'.op = "to_basic_csv" /\ ret'.err = None /\ size(St).err = None) =>
          /\ Len(to_basic_csv(St).rows) = size(St).val
          /\ \A j \in 0..MaxLine :
                j < size(St).val =>
                    /\ at_const(St, j).err = None
                    /\ j < Len(to_basic_csv(St).rows)
                    /\ row_equals(to_basic_csv(St).rows[j + 1], at_const(St, j).row)
          /\ DOMAIN cache' = {}
          /\ toDelete' = <<>>
      ]_vars

\* operator<<(const basic_csv &): the number of rows that are kept, which
\* is all of them when the current line has cells and all but the current
\* line when it has none
RowsKept(s) ==
    IF size(s).val = 0 THEN 0
    ELSE IF getLineFromFile(s, s.currentLine).row # <<>> THEN size(s).val
    ELSE size(s).val - 1

\* C18: file << document starts a new line first if the current line is
\* not empty, makes row k of the document the k-th row after the rows
\* kept, changes no row kept and flushes the table; on a table with no
\* rows the table read back equals the document.
C18_AppendDocument ==
    [][(ret'.op = "push_csv" /\ ret'.err = None /\ size(St).err = None) =>
          /\ size(St').err = None
          /\ size(St').val = RowsKept(St) + Len(ret'.val)
          /\ \A j \in 0..MaxLine :
                j < RowsKept(St) => SameRow(at_const(St', j), at_const(St, j))
          /\ \A k \in 1..Len(ret'.val) :
                /\ at_const(St', RowsKept(St) + k - 1).err = None
                /\ row_equals(at_const(St', RowsKept(St) + k - 1).row, ret'.val[k])
          /\ Collapsed(St')
          /\ NoRows(St) =>
                /\ to_basic_csv(St').err = None
                /\ csv_equals(to_basic_csv(St').rows, ret'.val)
      ]_vars

\* C19: erase(i) of a row of the table returns the iterator at position i,
\* which is end() exactly when i was the last row, whether or not the call
\* flushed.
C19_EraseIterator ==
    [][(ret'.op = "erase" /\ size(St).err = None /\ ret'.index < size(St).val) =>
          /\ ret'.err = None
          /\ ret'.val = ret'.index
          /\ size(St').err = None
          /\ (ret'.val = size(St').val) <=> (ret'.index = size(St).val - 1)
      ]_vars

\* C20: on a flushed table of n rows the loop
\* it = begin(); while (it != end()) it = erase(it); ends after exactly n
\* calls of erase, and size() is 0 after the loop and again after flush().
C20_FullDeletion ==
    /\ [](pc.step = "done" =>
              /\ pc.erased = pc.n
              /\ pc.before = 0
              /\ pc.after = 0)
    /\ <>(pc.step = "done")

\* the stored text of a cell is the escaped form of its unescaped value
IsCanonical(cell) == cell = escape_string(unescape_string(cell, FALSE))

\* C21: the text stored in a cell is canonical, whether the cell was
\* constructed from a value or parsed from a field of a row.
C21_CellCanonical ==
    /\ res.op = "csv_cell" => IsCanonical(res.out)
    /\ (res.op = "row_parse" /\ ~res.out.err) =>
           \A k \in 1..Len(res.out.row) : IsCanonical(res.out.row[k])

\* C22: at(i) on a document or on a row appends empty rows or cells up to
\* index i when i >= size(), so that size() is i + 1, keeps every element
\* that was there, returns the empty element i and keeps the row's
\* min_size(); for i < size() it changes nothing.
C22_Autogrow ==
    [][ /\ res'.op = "csv_at" =>
             /\ Len(csv') = Max(Len(csv), res'.index + 1)
             /\ SubSeq(csv', 1, Len(csv)) = csv
             /\ \A k \in (Len(csv) + 1)..Len(csv') : csv'[k] = row_nullptr
             /\ res'.out = csv'[res'.index + 1]
        /\ res'.op = "row_at" =>
             /\ Len(csv') = Len(csv)
             /\ \A k \in 1..Len(csv) : k # res'.line => csv'[k] = csv[k]
             /\ Len(csv'[res'.line]) = Max(Len(csv[res'.line]), res'.index + 1)
             /\ SubSeq(csv'[res'.line], 1, Len(csv[res'.line])) = csv[res'.line]
             /\ \A k \in (Len(csv[res'.line]) + 1)..Len(csv'[res'.line]) :
                   csv'[res'.line][k] = cell_nullptr
             /\ res'.out = csv'[res'.line][res'.index + 1]
             /\ min_size(csv'[res'.line]) = min_size(csv[res'.line])
      ]_vars

\* a row grew by two cells and a document by two rows
C22_Witness ==
    \/ /\ res.op = "row_at" /\ res.index = 1
       /\ Len(csv[res.line]) = 2 /\ csv[res.line][1] = cell_nullptr
       /\ csv[res.line][2] = cell_nullptr /\ min_size(csv[res.line]) = 0
    \/ /\ res.op = "csv_at" /\ res.index = 2
       /\ Len(csv) = 3 /\ csv[1] # row_nullptr /\ csv[2] = row_nullptr /\ csv[3] = row_nullptr

\* the length of a row without its trailing run of empty cells: the
\* highest index of a cell whose unescaped text is not empty
LogicalLength(row) ==
    Max(0, CHOOSE n \in 0..Len(row) :
               /\ n > 0 => unescape_string(row[n], FALSE) # <<>>
               /\ \A k \in (n + 1)..Len(row) : unescape_string(row[k], FALSE) = <<>>)

\* the rows have the same length without trailing empty cells and the
\* same unescaped text in every cell below it
RowsAlike(a, b) ==
    /\ LogicalLength(a) = LogicalLength(b)
    /\ \A k \in 1..LogicalLength(a) :
          unescape_string(a[k], FALSE) = unescape_string(b[k], FALSE)

\* C23: two documents are equal exactly when they have the same number of
\* rows and the rows at every index are alike; rows are alike whatever
\* their trailing empty cells are.
C23_Equality ==
    res.op = "equals" =>
        (res.out <=> /\ Len(csv) = Len(res.other)
                     /\ \A i \in 1..Len(csv) : RowsAlike(csv[i], res.other[i]))

\* a row of "a" and an empty cell equals a row of "a"
C23_Witness ==
    /\ res.op = "equals" /\ res.out
    /\ Len(csv) = 1 /\ Len(csv[1]) = 2 /\ Len(res.other[1]) = 1
    /\ csv[1][1] = <<"a">> /\ res.other[1][1] = <<"a">>

\* the texts joined by sep, none after the last
RECURSIVE JoinWith(_, _)
JoinWith(texts, sep) ==
    IF texts = <<>> THEN <<>>
    ELSE IF Len(texts) = 1 THEN texts[1]
    ELSE texts[1] \o <<sep>> \o JoinWith(Tail(texts), sep)

\* the first n fields of a row: the stored text of its cells, then empty
\* fields
Fields(row, n) == [k \in 1..n |-> IF k <= Len(row) THEN row[k] ELSE <<>>]

\* the highest length without trailing empty cells of the rows
LongestRow(rows) ==
    IF rows = <<>> THEN 0
    ELSE CHOOSE n \in {LogicalLength(rows[i]) : i \in 1..Len(rows)} :
             \A i \in 1..Len(rows) : LogicalLength(rows[i]) <= n

\* C24: to_string() of a document is its rows joined by a newline, every
\* row being its first max_row_length() fields joined by the separator;
\* to_string(p) of a row is its first max(min_size(), p) fields joined by
\* the separator.
C24_UniformRendering ==
    /\ res.op = "to_string" =>
           res.out = JoinWith([i \in 1..Len(csv) |->
                                  JoinWith(Fields(csv[i], LongestRow(csv)), Sep)], NL)
    /\ res.op = "row_to_string" =>
           res.out = JoinWith(Fields(csv[res.line],
                                     Max(LogicalLength(csv[res.line]), res.len)), Sep)

\* a row of one cell is padded to two fields and a row with a trailing
\* empty cell is rendered without it
C24_Witness ==
    /\ res.op = "to_string"
    /\ Len(csv) = 2 /\ csv[1] = <<<<"a">>>> /\ csv[2] = <<<<"a">>, <<"a">>>>
    /\ res.out = <<"a", Sep, NL, "a", Sep, "a">>

\* C25: after strip() every row has size() == min_size(), the last row has
\* cells, every cell that is not empty is where it was, no cell is there
\* that was not, and a second strip() changes nothing.
C25_Strip ==
    res.op = "strip" =>
        /\ \A i \in 1..Len(csv) : Len(csv[i]) = min_size(csv[i])
        /\ csv # <<>> => csv[Len(csv)] # row_nullptr
        /\ \A i \in 1..Len(res.before) : \A k \in 1..Len(res.before[i]) :
              unescape_string(res.before[i][k], FALSE) # <<>> =>
                  /\ i <= Len(csv) /\ k <= Len(csv[i])
                  /\ csv[i][k] = res.before[i][k]
        /\ Len(csv) <= Len(res.before)
        /\ \A i \in 1..Len(csv) :
              /\ Len(csv[i]) <= Len(res.before[i])
              /\ \A k \in 1..Len(csv[i]) : csv[i][k] = res.before[i][k]
        /\ csv_strip(csv) = csv

\* the trailing empty cell of the first row and the empty second row are
\* removed
C25_Witness ==
    /\ res.op = "strip"
    /\ Len(res.before) = 2 /\ Len(res.before[1]) = 2 /\ Len(res.before[2]) = 1
    /\ csv = <<<<<<"a">>>>>>

\* the (i + 1)-th smallest line index that is not in toDelete
NthKeptLine(s, i) ==
    CHOOSE p \in 0..(i + Len(s.toDelete)) :
        /\ ~InToDelete(s, p)
        /\ Cardinality({q \in 0..(p - 1) : ~InToDelete(s, q)}) = i

\* C26: translateLine maps the logical index i to the (i + 1)-th smallest
\* line index that is not in toDelete; the line is not pending deletion
\* and the mapping is strictly increasing.
C26_TranslateLine ==
    \A i \in 0..(MaxLine + 1) :
        /\ translateLine(St, i) = NthKeptLine(St, i)
        /\ ~InToDelete(St, translateLine(St, i))
        /\ \A j \in 0..(MaxLine + 1) :
              i < j => translateLine(St, i) < translateLine(St, j)

\* lines 0 and 2 are pending deletion: row 0 is line 1 and row 1 is line 3
C26_Witness ==
    /\ ret.op = "erase" /\ ret.err = None
    /\ toDelete = <<0, 2>>
    /\ translateLine(St, 0) = 1 /\ translateLine(St, 1) = 3

\* C27: toDelete is sorted in strictly ascending order, so that no line
\* index is in it twice.
C27_ToDeleteSorted ==
    \A k \in 1..(Len(toDelete) - 1) : toDelete[k] < toDelete[k + 1]

\* a lower line was erased after a higher one
C27_Witness ==
    /\ ret.op = "erase" /\ ret.err = None /\ ret.index = 0
    /\ toDelete = <<0, 2>>
    /\ file.segs # <<<<>>>>

\* C28: no key of the cache is a line pending deletion.
C28_CacheNotDeleted ==
    \A k \in DOMAIN cache : ~InToDelete(St, k)

\* C29: toDelete has at most getTranslatedMaxLineIndex() entries, so that
\* the subtraction in getMaxLineIndex() does not wrap.
C29_NoWrap ==
    Len(toDelete) <= getTranslatedMaxLineIndex(St)

\* C30: clear() leaves no row in the file or the cache and no line to
\* delete; after file = document without an error size() is the number of
\* rows of the document and to_basic_csv() is equal to the document.
C30_Assign ==
    [][ /\ ret'.op = "clear" =>
              /\ DOMAIN cache' = {}
              /\ toDelete' = <<>>
              /\ ~file'.exists
        /\ (ret'.op = "assign" /\ ret'.err = None) =>
              /\ size(St').err = None
              /\ size(St').val = Len(ret'.val)
              /\ to_basic_csv(St').err = None
              /\ csv_equals(to_basic_csv(St').rows, ret'.val)
      ]_vars

=============================================================================
